---- MODULE Spec2Model ----
(***************************************************************************)
(* Model of the video generation orchestration of gen_v                    *)
(* (backend/gen_v/video/generation.py): the operation poller               *)
(* fetch_operation, the submission image_to_video, the per-item worker     *)
(* generate_video_for_item and the thread-pool fan-out                     *)
(* generate_videos_concurrently.                                           *)
(***************************************************************************)
EXTENDS Integers, Sequences, FiniteSets, TLC

(***************************************************************************)
(* Bounds of the model and constants of the program.                       *)
(***************************************************************************)
\* number of distinct result payloads the status endpoint can answer with
NumPayloads == 2

\* generation.py:159 and generation.py:160
max_attempts == 30
attempt_interval == 10

Payloads == 1..NumPayloads

\* Python's None (the value of a function that falls off its end).
NoneValue == [done |-> "none", payload |-> 0]

\* The JSON bodies a status request can be answered with: the 'done' key is
\* true, false or absent; payload identifies the rest of the response.
Bodies == [done : {"true", "false", "absent"}, payload : Payloads]

\* What can happen to one HTTP POST: the connection fails, the request times
\* out, or the server answers with a status code and (for 200) a JSON body.
Outcomes ==
  [net : {"ConnectionError", "Timeout"}, code : {0}, body : {NoneValue}]
    \cup [net : {"ok"}, code : {500}, body : {NoneValue}]
    \cup [net : {"ok"}, code : {200}, body : Bodies]

\* response.raise_for_status(): an HTTPError for a 4xx or 5xx status.
raise_for_status(code) == code >= 400 /\ code < 600

\* send_request_to_google_api: requests.post raises on a transport failure,
\* raise_for_status raises HTTPError on a non-2xx status, otherwise the JSON
\* body is returned.
send_request_to_google_api(o) ==
  IF o.net # "ok" THEN [raised |-> o.net, value |-> NoneValue]
  ELSE IF raise_for_status(o.code)
         THEN [raised |-> "HTTPError", value |-> NoneValue]
         ELSE [raised |-> "none", value |-> o.body]

\* generation.py:165: 'done' in resp and resp['done']
IsDoneKeyPresent(resp) == resp.done # "absent"
IsDone(resp) == resp.done # "absent" /\ resp.done = "true"

\* generation.py:167: the except clause of the polling loop.
PollCatches(e) == e = "HTTPError"

\* One pass through the try block of the polling loop (generation.py:163-168):
\* "return" the response, "raise" an exception the clause does not catch, or
\* fall through to the "sleep".
PollTry(o) ==
  LET r == send_request_to_google_api(o) IN
    IF r.raised = "none"
      THEN IF IsDone(r.value)
             THEN [next |-> "return", value |-> r.value, exc |-> "none"]
             ELSE [next |-> "sleep", value |-> NoneValue, exc |-> "none"]
      ELSE IF PollCatches(r.raised)
             THEN [next |-> "sleep", value |-> NoneValue, exc |-> "none"]
             ELSE [next |-> "raise", value |-> NoneValue, exc |-> r.raised]

(***************************************************************************)
(* State of one call of fetch_operation, step by step.                     *)
(***************************************************************************)
VARIABLES
  fpc,        \* "request", "sleep", "returned" or "raised"
  attempt,    \* completed iterations of the for loop
  requests,   \* status requests issued so far
  sleeps,     \* calls of time.sleep so far
  elapsed,    \* seconds slept so far
  ret,        \* the value returned (NoneValue until then)
  exc,        \* the exception that escaped ("none" if none)
  lastOutcome,\* what happened to the latest status request
  httpErrors, \* status requests that ended in an HTTPError (logged)
  firstDone,  \* index of the first request answered with done=true, 0 if none
  doneBody    \* the body of that answer

fvars == <<fpc, attempt, requests, sleeps, elapsed, ret, exc, lastOutcome,
           httpErrors, firstDone, doneBody>>

NoOutcome == [net |-> "none", code |-> 0, body |-> NoneValue]

FetchInit ==
  /\ fpc = "request"
  /\ attempt = 0
  /\ requests = 0
  /\ sleeps = 0
  /\ elapsed = 0
  /\ ret = NoneValue
  /\ exc = "none"
  /\ lastOutcome = NoOutcome
  /\ httpErrors = 0
  /\ firstDone = 0
  /\ doneBody = NoneValue

\* A plausible slip: the sleep sits inside the try block, ahead of the check,
\* so that the poller also sleeps after the response that ends the polling.
FetchRequestThenSleep(o) ==
  /\ fpc = "request"
  /\ attempt < max_attempts
  /\ requests' = requests + 1
  /\ lastOutcome' = o
  /\ LET r == send_request_to_google_api(o)
         t == PollTry(o) IN
       /\ httpErrors' = IF r.raised = "HTTPError" /\ t.next = "sleep"
                          THEN httpErrors + 1 ELSE httpErrors
       /\ firstDone' = IF firstDone = 0 /\ r.raised = "none"
                            /\ r.value.done = "true"
                          THEN requests + 1 ELSE firstDone
       /\ doneBody' = IF firstDone = 0 /\ r.raised = "none"
                           /\ r.value.done = "true"
                         THEN r.value ELSE doneBody
       /\ fpc' = CASE t.next = "return" -> "returned"
                   [] t.next = "raise" -> "raised"
                   [] OTHER -> "sleep"
       /\ ret' = t.value
       /\ exc' = t.exc
       /\ sleeps' = IF t.next = "return" THEN sleeps + 1 ELSE sleeps
       /\ elapsed' = IF t.next = "return" THEN elapsed + attempt_interval
                       ELSE elapsed
  /\ UNCHANGED attempt

\* generation.py:163-168: the status request of one loop iteration.
FetchRequest(o) ==
  /\ fpc = "request"
  /\ attempt < max_attempts
  /\ requests' = requests + 1
  /\ lastOutcome' = o
  /\ LET r == send_request_to_google_api(o)
         t == PollTry(o) IN
       /\ httpErrors' = IF r.raised = "HTTPError" /\ t.next = "sleep"
                          THEN httpErrors + 1 ELSE httpErrors
       /\ firstDone' = IF firstDone = 0 /\ r.raised = "none"
                            /\ r.value.done = "true"
                          THEN requests + 1 ELSE firstDone
       /\ doneBody' = IF firstDone = 0 /\ r.raised = "none"
                           /\ r.value.done = "true"
                         THEN r.value ELSE doneBody
       /\ fpc' = CASE t.next = "return" -> "returned"
                   [] t.next = "raise" -> "raised"
                   [] OTHER -> "sleep"
       /\ ret' = t.value
       /\ exc' = t.exc
  /\ UNCHANGED <<attempt, sleeps, elapsed>>

\* generation.py:170, and the end of the loop (generation.py:162): after the
\* last sleep the function falls off its end and returns None.
FetchSleep ==
  /\ fpc = "sleep"
  /\ sleeps' = sleeps + 1
  /\ elapsed' = elapsed + attempt_interval
  /\ attempt' = attempt + 1
  /\ fpc' = IF attempt + 1 < max_attempts THEN "request" ELSE "returned"
  /\ ret' = NoneValue
  /\ UNCHANGED <<requests, exc, lastOutcome, httpErrors, firstDone, doneBody>>

(***************************************************************************)
(* fetch_operation and image_to_video as functions of what the network     *)
(* does: a script gives the outcome of the a-th status request.            *)
(***************************************************************************)
\* generation.py:162-170: the loop, run against a script of outcomes.
RECURSIVE PollLoop(_, _)
PollLoop(script, a) ==
  IF a = max_attempts
    THEN [raised |-> "none", value |-> NoneValue, requests |-> a, sleeps |-> a]
    ELSE LET t == PollTry(script[a + 1]) IN
      CASE t.next = "return" ->
             [raised |-> "none", value |-> t.value,
              requests |-> a + 1, sleeps |-> a]
        [] t.next = "raise" ->
             [raised |-> t.exc, value |-> NoneValue,
              requests |-> a + 1, sleeps |-> a]
        [] OTHER -> PollLoop(script, a + 1)

fetch_operation(script) == PollLoop(script, 0)

\* generation.py:199: the except clause of image_to_video.
I2VCatchesNothing(e) == FALSE
I2VCatches(e) == e = "HTTPError"

\* generation.py:190-200: one submission, then the polling, both inside the
\* try block; a caught error is logged and the function returns None.
image_to_video(submit, script) ==
  LET r == send_request_to_google_api(submit)
      f == fetch_operation(script)
      e == IF r.raised # "none" THEN r.raised ELSE f.raised
  IN [submit_error |-> r.raised,
      submissions |-> 1,
      requests |-> IF r.raised = "none" THEN f.requests ELSE 0,
      sleeps |-> IF r.raised = "none" THEN f.sleeps ELSE 0,
      timed_out |-> r.raised = "none" /\ f.raised = "none"
                      /\ f.value = NoneValue,
      raised |-> IF e # "none" /\ ~I2VCatches(e) THEN e ELSE "none",
      value |-> IF e = "none" THEN f.value ELSE NoneValue]

(***************************************************************************)
(* The batch: generate_videos_concurrently over a thread pool.             *)
(***************************************************************************)
\* items in the batch, threads of the pool
NumItems == 2
max_workers == 2

Items == 1..NumItems

\* The status request at which a script's decisive outcome arrives.
PollPoints == {1, max_attempts}

Pending == [net |-> "ok", code |-> 200,
            body |-> [done |-> "false", payload |-> 1]]
Http500 == [net |-> "ok", code |-> 500, body |-> NoneValue]
ConnFail == [net |-> "ConnectionError", code |-> 0, body |-> NoneValue]
Done(p) == [net |-> "ok", code |-> 200,
            body |-> [done |-> "true", payload |-> p]]

\* The submission is answered with the operation name (no 'done' key), with
\* a non-2xx status, or not at all.
Submitted == [net |-> "ok", code |-> 200,
              body |-> [done |-> "absent", payload |-> 1]]
SubmitOutcomes == {Submitted, Http500, ConnFail}

Script(k, filler, last) ==
  [a \in 1..max_attempts |-> IF a < k THEN filler ELSE last]

Scripts ==
  {Script(k, f, l) : k \in PollPoints, f \in {Pending, Http500},
                     l \in {Pending, ConnFail} \cup {Done(p) : p \in Payloads}}

\* What image_to_video can do, over every submission outcome and script.
ImageToVideoResults ==
  {image_to_video(submit, script) : submit \in SubmitOutcomes,
                                    script \in Scripts}

\* len(output_videos['response']['videos']) of a finished operation.
NumVideos(resp) == resp.payload

NoCall == [submit_error |-> "none", submissions |-> 0, requests |-> 0,
           sleeps |-> 0, timed_out |-> FALSE, raised |-> "none",
           value |-> NoneValue]

NoIo == [src_downloads |-> 0, gemini_calls |-> 0, video_downloads |-> 0,
         moves |-> 0]

VARIABLES
  items,                \* items_to_process: has the item its image uri
  prompt_type,          \* settings.prompt_type
  future,               \* state of the future of each item
  wpc,                  \* where the worker of each item stands
  calls,                \* invocations of generate_video_for_item per item
  io,                   \* storage and Gemini calls made for each item
  final_prompt,         \* the prompt resolved for each item
  i2v,                  \* what image_to_video did for each item
  output_video_files,   \* the list each worker builds
  wexc,                 \* the exception that ended each worker
  overtaken,            \* has a worker ended before the worker of an earlier item
  mpc,                  \* where the calling thread stands
  yielded,              \* items whose result the iterator has yielded
  all_generated_videos, \* the aggregate list
  mexc                  \* the exception generate_videos_concurrently raises

bvars == <<items, prompt_type, future, wpc, calls, io, final_prompt, i2v,
           output_video_files, wexc, overtaken, mpc, yielded,
           all_generated_videos, mexc>>

BatchStart ==
  /\ future = [i \in Items |-> "none"]
  /\ wpc = [i \in Items |-> "idle"]
  /\ calls = [i \in Items |-> 0]
  /\ io = [i \in Items |-> NoIo]
  /\ final_prompt = [i \in Items |-> "unset"]
  /\ i2v = [i \in Items |-> NoCall]
  /\ output_video_files = [i \in Items |-> <<>>]
  /\ wexc = [i \in Items |-> "none"]
  /\ overtaken = FALSE
  /\ mpc = "start"
  /\ yielded = <<>>
  /\ all_generated_videos = <<>>
  /\ mexc = "none"

BatchInit ==
  /\ items \in [Items -> [has_uri : BOOLEAN]]
  /\ prompt_type \in {"CUSTOM", "GEMINI", "INVALID"}
  /\ BatchStart

\* The worker of item i ends while the worker of an earlier item has not.
Overtakes(i) == \E j \in Items : j < i /\ future[j] \in {"pending", "running"}

\* The worker of item i ends: its future holds a result or an exception.
Finish(i, list) ==
  /\ future' = [future EXCEPT ![i] = "finished"]
  /\ wpc' = [wpc EXCEPT ![i] = "done"]
  /\ output_video_files' = [output_video_files EXCEPT ![i] = list]
  /\ overtaken' = (overtaken \/ Overtakes(i))
  /\ wexc' = wexc

Raise(i, e) ==
  /\ future' = [future EXCEPT ![i] = "raised"]
  /\ wpc' = [wpc EXCEPT ![i] = "done"]
  /\ wexc' = [wexc EXCEPT ![i] = e]
  /\ overtaken' = (overtaken \/ Overtakes(i))
  /\ output_video_files' = output_video_files

Goto(i, pc) ==
  /\ wpc' = [wpc EXCEPT ![i] = pc]
  /\ UNCHANGED <<future, output_video_files, wexc, overtaken>>

main == <<mpc, yielded, all_generated_videos, mexc>>
input == <<items, prompt_type>>

\* generation.py:362: executor.map submits one future per item, in order.
MapSubmit ==
  /\ mpc = "start"
  /\ mpc' = "iterate"
  /\ future' = [i \in Items |-> "pending"]
  /\ UNCHANGED <<input, wpc, calls, io, final_prompt, i2v, output_video_files,
                 wexc, overtaken, yielded, all_generated_videos, mexc>>

\* A pool thread takes the oldest pending work item and calls worker_func.
StartWorker(i) ==
  /\ future[i] = "pending"
  /\ \A j \in Items : j < i => future[j] # "pending"
  /\ Cardinality({j \in Items : future[j] = "running"}) < max_workers
  /\ future' = [future EXCEPT ![i] = "running"]
  /\ wpc' = [wpc EXCEPT ![i] = "check"]
  /\ calls' = [calls EXCEPT ![i] = @ + 1]
  /\ UNCHANGED <<input, io, final_prompt, i2v, output_video_files, wexc,
                 overtaken, main>>

\* A plausible slip: indexing the missing key instead of skipping the item.
CheckFieldRaises(i) ==
  /\ future[i] = "running" /\ wpc[i] = "check"
  /\ IF items[i].has_uri THEN Goto(i, "download") ELSE Raise(i, "KeyError")
  /\ UNCHANGED <<input, calls, io, final_prompt, i2v, main>>

\* generation.py:269-273: an item without 'recolored_image_uri' is skipped.
CheckField(i) ==
  /\ future[i] = "running" /\ wpc[i] = "check"
  /\ IF items[i].has_uri THEN Goto(i, "download") ELSE Finish(i, <<>>)
  /\ UNCHANGED <<input, calls, io, final_prompt, i2v, main>>

\* generation.py:278-280: download of the source image; a missing blob makes
\* the storage client raise.
DownloadSource(i, found) ==
  /\ future[i] = "running" /\ wpc[i] = "download"
  /\ io' = [io EXCEPT ![i].src_downloads = @ + 1]
  /\ IF found THEN Goto(i, "prompt") ELSE Raise(i, "NotFound")
  /\ UNCHANGED <<input, calls, final_prompt, i2v, main>>

\* generation.py:282-299: the prompt is the configured text, Gemini's answer,
\* or stays empty for any other prompt type. The Gemini request loads the
\* downloaded image and fails when it cannot (models/video.py:59-60).
ResolvePrompt(i, loaded) ==
  /\ future[i] = "running" /\ wpc[i] = "prompt"
  /\ CASE prompt_type = "CUSTOM" ->
            /\ final_prompt' = [final_prompt EXCEPT ![i] = "base"]
            /\ io' = io
            /\ Goto(i, "generate")
       [] prompt_type = "GEMINI" /\ loaded ->
            /\ final_prompt' = [final_prompt EXCEPT ![i] = "gemini"]
            /\ io' = [io EXCEPT ![i].gemini_calls = @ + 1]
            /\ Goto(i, "generate")
       [] prompt_type = "GEMINI" /\ ~loaded ->
            /\ UNCHANGED <<final_prompt, io>>
            /\ Raise(i, "ValueError")
       [] OTHER ->
            /\ final_prompt' = [final_prompt EXCEPT ![i] = ""]
            /\ io' = io
            /\ Goto(i, "generate")
  /\ UNCHANGED <<input, calls, i2v, main>>

\* generation.py:223-231: image_to_video (r is what it did, one of
\* ImageToVideoResults), then the subscript of its result, which is a
\* TypeError when the result is None.
Generate(i, r) ==
  /\ future[i] = "running" /\ wpc[i] = "generate"
  /\ i2v' = [i2v EXCEPT ![i] = r]
  /\ IF r.raised # "none" THEN Raise(i, r.raised)
     ELSE IF r.value = NoneValue THEN Raise(i, "TypeError")
     ELSE Goto(i, "videos")
  /\ UNCHANGED <<input, calls, io, final_prompt, main>>

\* generation.py:233-251: one pass of the loop over the videos: download,
\* relocate, append the record; after the last video the list is returned.
DownloadVideo(i, found) ==
  /\ future[i] = "running" /\ wpc[i] = "videos"
  /\ LET k == Len(output_video_files[i]) + 1
         list == Append(output_video_files[i], [item |-> i, sample |-> k])
     IN IF ~found
          THEN /\ io' = [io EXCEPT ![i].video_downloads = @ + 1]
               /\ Raise(i, "NotFound")
          ELSE /\ io' = [io EXCEPT ![i].video_downloads = @ + 1,
                                   ![i].moves = @ + 1]
               /\ IF k = NumVideos(i2v[i].value)
                    THEN Finish(i, list)
                    ELSE /\ output_video_files' =
                              [output_video_files EXCEPT ![i] = list]
                         /\ UNCHANGED <<future, wpc, wexc, overtaken>>
  /\ UNCHANGED <<input, calls, final_prompt, i2v, main>>

\* Results taken as the workers end (concurrent.futures.as_completed) and not
\* in the order of the input: the result of a worker that has ended is taken
\* ahead of the results of earlier items that are still running.
NextEnded(y) ==
  LET rest == {i \in Items : /\ future[i] \in {"finished", "raised"}
                             /\ \A n \in 1..Len(y) : y[n] # i}
      left == {i \in Items : \A n \in 1..Len(y) : y[n] # i}
      from == IF rest = {} THEN left ELSE rest
  IN CHOOSE i \in from : \A m \in from : i <= m

\* The result iterator of executor.map yields in the order of the input.
NextToYield(y) == Len(y) + 1

\* list.extend replaced by an append of the first record only.
ExtendFirstOnly(all, video_list) ==
  IF video_list # <<>> THEN Append(all, video_list[1]) ELSE all

\* generation.py:364-365
Extend(all, video_list) ==
  IF video_list # <<>> THEN all \o video_list ELSE all

\* generation.py:363-365: the next result of the iterator. The result of a
\* worker that raised is re-raised here; the iterator then cancels the
\* futures that have not started, and the with block is left.
Collect ==
  /\ mpc = "iterate"
  /\ Len(yielded) < NumItems
  /\ LET i == NextToYield(yielded) IN
       /\ future[i] \in {"finished", "raised"}
       /\ yielded' = Append(yielded, i)
       /\ IF future[i] = "finished"
            THEN /\ all_generated_videos' =
                      Extend(all_generated_videos, output_video_files[i])
                 /\ mpc' = IF Len(yielded) + 1 = NumItems
                             THEN "shutdown" ELSE "iterate"
                 /\ UNCHANGED <<mexc, future>>
            ELSE /\ mexc' = wexc[i]
                 /\ mpc' = "shutdown"
                 /\ future' = [j \in Items |->
                       IF future[j] = "pending" THEN "cancelled" ELSE future[j]]
                 /\ UNCHANGED all_generated_videos
  /\ UNCHANGED <<input, wpc, calls, io, final_prompt, i2v, output_video_files,
                 wexc, overtaken>>

\* The with block left without waiting for the workers that still run.
ShutdownNoWait ==
  /\ mpc = "shutdown"
  /\ mpc' = IF mexc = "none" THEN "returned" ELSE "raised"
  /\ UNCHANGED <<input, future, wpc, calls, io, final_prompt, i2v,
                 output_video_files, wexc, overtaken, yielded,
                 all_generated_videos, mexc>>

\* generation.py:361, 370: leaving the with block waits for the running
\* workers (shutdown(wait=True)); then the list is returned or the exception
\* goes on to the caller.
Shutdown ==
  /\ mpc = "shutdown"
  /\ \A j \in Items : future[j] \notin {"pending", "running"}
  /\ mpc' = IF mexc = "none" THEN "returned" ELSE "raised"
  /\ UNCHANGED <<input, future, wpc, calls, io, final_prompt, i2v,
                 output_video_files, wexc, overtaken, yielded,
                 all_generated_videos, mexc>>

(***************************************************************************)
(* The local files of the workers (storage/gcs.py download_file_locally,   *)
(* generation.py generate_video_for_item, generate_videos_and_download).   *)
(* A Cloud Storage URI is the list of its parts between the "/" after the  *)
(* bucket; a local path is the directory and the file name in it.          *)
(***************************************************************************)

\* Image URIs of the items: two of them name equally named objects of
\* different folders.
ImageUris == {<<"products", "a.png">>, <<"archive", "a.png">>,
              <<"products", "b.png">>}

\* gcs.py:159: gcs_uri.split("/")[-1]
get_file_name_from_gcs_url(gcs_uri) == gcs_uri[Len(gcs_uri)]

NoFileName == <<>>
tmp_string == "/content"
output_file_prefix == "promo"

\* gcs.py:64-69: the local path of a download. A file name is the list of the
\* pieces it is formatted from; none of them holds tmp_string.
download_file_locally(uri, file_name) ==
  LET name == IF file_name = NoFileName
                THEN <<get_file_name_from_gcs_url(uri)>> ELSE file_name
  IN <<tmp_string, name>>

\* The gcsUri of the k-th video generated for item i: the service writes the
\* videos of each operation to a folder of their own.
VideoUri(i, k) == <<"veo", i, k>>

\* generation.py:234-235
output_video_local_path(image, video) ==
  <<get_file_name_from_gcs_url(image), output_file_prefix,
    get_file_name_from_gcs_url(video)>>

VARIABLES
  image_uri,     \* recolored_image_uri of each item
  ppc,           \* where the worker of each item stands
  downloaded,    \* number of videos each worker has downloaded
  local_paths    \* local paths each worker has written

pvars == <<image_uri, ppc, downloaded, local_paths>>

PathsStart ==
  /\ ppc = [i \in Items |-> "source"]
  /\ downloaded = [i \in Items |-> 0]
  /\ local_paths = [i \in Items |-> {}]

PathsInit ==
  /\ image_uri \in [Items -> ImageUris]
  /\ PathsStart

\* generation.py:278-280
PathSource(i) ==
  /\ ppc[i] = "source"
  /\ local_paths' = [local_paths EXCEPT
       ![i] = @ \cup {download_file_locally(image_uri[i], NoFileName)}]
  /\ ppc' = [ppc EXCEPT ![i] = "videos"]
  /\ UNCHANGED <<image_uri, downloaded>>

\* generation.py:233-237: one pass of the loop over the videos.
PathVideo(i) ==
  /\ ppc[i] = "videos"
  /\ downloaded[i] < NumPayloads
  /\ LET video == VideoUri(i, downloaded[i] + 1) IN
       local_paths' = [local_paths EXCEPT
         ![i] = @ \cup {download_file_locally(video,
                          output_video_local_path(image_uri[i], video))}]
  /\ downloaded' = [downloaded EXCEPT ![i] = @ + 1]
  /\ UNCHANGED <<image_uri, ppc>>

\* generation.py:251: the worker returns after the last video.
PathReturn(i) ==
  /\ ppc[i] = "videos"
  /\ ppc' = [ppc EXCEPT ![i] = "done"]
  /\ UNCHANGED <<image_uri, downloaded, local_paths>>

PathsIdle ==
  /\ image_uri = [i \in Items |-> <<"products", "a.png">>]
  /\ PathsStart

(***************************************************************************)
(* The functions of video/editing.py and components/video_editing.py that  *)
(* compute a value from their arguments: one call of one of them, with its *)
(* arguments, and then what the call did. Times are whole seconds; a time  *)
(* that a division produced is a fraction num/den.                         *)
(***************************************************************************)

MaxClips == 4
MaxDuration == 3
MaxPadding == 2
MaxOutputLength == 6

Durations == 1..MaxDuration
Paddings == 0..MaxPadding
OutputLengths == 0..MaxOutputLength
ClipLists == UNION {[1..n -> Durations] : n \in 1..MaxClips}
TrimLocations == {"start", "end", "middle"}

RECURSIVE SumTo(_, _)
SumTo(durations, n) ==
  IF n = 0 THEN 0 ELSE SumTo(durations, n - 1) + durations[n]

\* editing.py:268-271
total_length(video_clips, padding) ==
  SumTo(video_clips, Len(video_clips)) - padding * (Len(video_clips) - 1)

\* An optional argument: <<>> is None, <<x>> is the value x.
None == <<>>
Some(x) == <<x>>

\* The clip kept from its first frame whatever start is asked for.
SubclippedFromZero(duration, start_time, end_time) ==
  [raised |-> "none", from |-> 0,
   to |-> IF end_time = None THEN duration ELSE end_time[1]]

\* moviepy VideoClip.subclipped as editing.py:292 calls it: a negative start
\* or end counts back from the end of the clip, a start at or after the end
\* of the clip is a ValueError, and the new clip is the window from start to
\* end of the old one.
subclipped(duration, start_time, end_time) ==
  LET start == IF start_time < 0 THEN duration + start_time ELSE start_time
      end == IF end_time = None THEN duration
             ELSE IF end_time[1] < 0 THEN duration + end_time[1]
             ELSE end_time[1]
  IN IF start >= duration
       THEN [raised |-> "ValueError", from |-> 0, to |-> 0]
       ELSE [raised |-> "none", from |-> start, to |-> end]

\* A clip as it was loaded: its duration num/den and its window from..to of
\* the file, in units of 1/den seconds.
Whole(d) == [num |-> d, den |-> 1, from |-> 0, to |-> d]

\* editing.py:246-301. The trim length is total_trim_length divided by the
\* number of interior clips; the interior clips are cut in units of 1/den
\* seconds, den being that number.
trim_clips(video_clips, padding, output_length, trim_location, trim_enabled) ==
  LET n == Len(video_clips)
      total_trim_length == total_length(video_clips, padding) - output_length
      number_of_veo_clips == n - 2
      untouched == [k \in 1..n |-> Whole(video_clips[k])]
      cut(k) ==
        LET d == video_clips[k] * number_of_veo_clips
        IN IF trim_location = "start"
             THEN subclipped(d, -(d - total_trim_length), None)
             ELSE subclipped(d, 0, Some(d - total_trim_length))
  IN IF total_trim_length < 0 \/ ~trim_enabled
       THEN [raised |-> "none", clips |-> untouched]
     ELSE IF number_of_veo_clips = 0
       THEN [raised |-> "ZeroDivisionError", clips |-> <<>>]
     ELSE IF n < 3
       THEN [raised |-> "none", clips |-> untouched]
     ELSE IF trim_location \notin {"start", "end"}
       THEN [raised |-> "ValueError", clips |-> <<>>]
     ELSE IF \E k \in 2..(n - 1) : cut(k).raised # "none"
       THEN [raised |-> "ValueError", clips |-> <<>>]
     ELSE [raised |-> "none",
           clips |-> [k \in 1..n |->
                        IF k \in 2..(n - 1)
                          THEN [num |-> cut(k).to - cut(k).from,
                                den |-> number_of_veo_clips,
                                from |-> cut(k).from, to |-> cut(k).to]
                          ELSE Whole(video_clips[k])]]

PixelSizes == {720, 1080, 1280, 1920}

min(a, b) == IF a <= b THEN a ELSE b

\* The desired pair handed on as it came.
SetTargetResolutionAsGiven(clip_dimension, width, height) ==
  <<width, height>>

\* editing.py:518-549 (clip_dimension is the size of the opened clip)
\* width and height are resized_image_width and resized_image_height.
set_target_resolution(clip_dimension, width, height) ==
  IF clip_dimension[1] < clip_dimension[2]
    THEN IF width > height THEN <<height, width>> ELSE <<width, height>>
  ELSE IF clip_dimension[1] > clip_dimension[2]
    THEN IF width > height THEN <<width, height>> ELSE <<height, width>>
  ELSE <<min(height, width), min(height, width)>>

MaxAudio == 3
StartTimes == {0, 5, 12}
AudioDurations == {None, Some(0), Some(3)}
VideoDurations == {20, 30}
AudioInputs == [start_time : StartTimes, duration : AudioDurations]
AudioLists == UNION {[1..n -> AudioInputs] : n \in 1..MaxAudio}

\* Python's truth value of an optional number: None and 0 are false.
Truthy(x) == x # None /\ x[1] # 0

\* components/video_editing.py:144-166
calculate_audio_duration(i, audio_inputs, video_duration) ==
  IF ~Truthy(audio_inputs[i].duration)
    THEN LET next_start_time ==
               IF i < Len(audio_inputs)
                 THEN audio_inputs[i + 1].start_time ELSE video_duration
         IN next_start_time - audio_inputs[i].start_time
    ELSE audio_inputs[i].duration[1]

Sides == {"left", "right", "top", "bottom"}
SideInputs == Sides \cup {"center", ""}

\* The pairs of sides mixed up: top answers left.
GetOppositeSideMixedUp(side) ==
  IF side \in Sides
    THEN [raised |-> "none",
          value |-> IF side = "left" THEN "right" ELSE "left"]
    ELSE [raised |-> "ValueError", value |-> ""]

\* editing.py:388-410
get_opposite_side(side) ==
  CASE side = "left" -> [raised |-> "none", value |-> "right"]
    [] side = "right" -> [raised |-> "none", value |-> "left"]
    [] side = "top" -> [raised |-> "none", value |-> "bottom"]
    [] side = "bottom" -> [raised |-> "none", value |-> "top"]
    [] OTHER -> [raised |-> "ValueError", value |-> ""]

\* editing.py:430-439: the passes of the loop of swipe from clip k on; each
\* clip starts padding before the end of what is composed so far.
RECURSIVE SwipeLoop(_, _, _, _, _)
SwipeLoop(video_clips, padding, k, composed_duration, starts) ==
  IF k > Len(video_clips)
    THEN [raised |-> "none", composed |-> Len(starts), starts |-> starts,
          duration |-> composed_duration]
    ELSE LET start == composed_duration - padding
             end == start + video_clips[k]
         IN SwipeLoop(video_clips, padding, k + 1,
                      IF end > composed_duration THEN end
                      ELSE composed_duration,
                      Append(starts, start))

\* editing.py:413-441
swipe(video_clips, padding, side) ==
  LET opposite_side == get_opposite_side(side)
  IN IF opposite_side.raised # "none"
       THEN [raised |-> opposite_side.raised, composed |-> 0,
             starts |-> <<>>, duration |-> 0]
       ELSE SwipeLoop(video_clips, padding, 2, video_clips[1], <<>>)

(***************************************************************************)
(* models/media.py TextInput: the keyword arguments of a construction; a   *)
(* keyword that is left out is None in the dictionary the validators of    *)
(* mode 'before' read, and gets its default afterwards.                    *)
(***************************************************************************)

NoSize == <<>>
TextInputValues ==
  [text : {None, Some("Hello")},
   filename : {None, Some("promo.txt")},
   method : {None, Some("label"), Some("caption"), Some("invalid_method")},
   font_size : {None, Some(12)},
   size : {None, Some(NoSize), Some(<<150, 80>>)},
   bg_color : {None, Some(<<0, 255, 0>>), Some(<<0, 255, 0, 128>>)},
   transparent : {None, Some(TRUE), Some(FALSE)}]

\* The value of a field: the keyword given, or the default of the field.
Default(value, default) == IF value = None THEN default ELSE value[1]

\* media.py:144-146: method is values.get('method'), None when left out.
LabelNeedsFontSize(values) ==
  values.method = Some("label") /\ values.font_size = None

\* media.py:62-206: the model validators of mode 'before' on the dictionary
\* of keywords, the field validator of method, then the fields with their
\* defaults (media.py:107-128).
TextInput(values) ==
  LET ensure_text_or_filename ==
        values.filename = None /\ values.text = None
      validate_font_size_for_label == LabelNeedsFontSize(values)
      validate_size_for_caption ==
        values.method = Some("caption") /\ values.size = None
      validate_bg_color_length ==
        /\ values.transparent = Some(TRUE)
        /\ values.bg_color # None
        /\ Len(values.bg_color[1]) # 4
      validate_method_allowed_values ==
        values.method # None /\ values.method[1] \notin {"label", "caption"}
  IN IF \/ ensure_text_or_filename
        \/ validate_font_size_for_label
        \/ validate_size_for_caption
        \/ validate_bg_color_length
        \/ validate_method_allowed_values
       THEN [raised |-> "ValidationError"]
       ELSE [raised |-> "none",
             method |-> Default(values.method, "label"),
             font_size |-> values.font_size,
             size |-> Default(values.size, NoSize),
             size_given |-> values.size # None,
             transparent |-> Default(values.transparent, TRUE)]

(***************************************************************************)
(* Image overlays: what the two overlay functions do with one ImageInput,  *)
(* whose duration and height may be None.                                  *)
(***************************************************************************)

ImageDurations == {None, Some(2)}
ImageHeights == {None, Some(0), Some(100)}
HostDurations == {5, 8}

\* components/video_editing.py:87-104: one pass of the loop over the images.
add_image_clips_to_video(duration, height, video_duration) ==
  [raised |-> "none",
   rescaled |-> Truthy(height),
   duration |-> IF Truthy(duration) THEN duration ELSE Some(video_duration)]

\* video/editing.py:86-109: one pass of the loop over the images. The
\* comparison of None with 0 is a TypeError; the clip gets the duration of
\* the input as it is.
overlay_image_on_video(duration, height, video_duration) ==
  IF height = None
    THEN [raised |-> "TypeError", rescaled |-> FALSE, duration |-> None]
    ELSE [raised |-> "none", rescaled |-> height[1] > 0,
          duration |-> duration]

(***************************************************************************)
(* utils/image.py hex_to_rgb. A string is the sequence of its characters.  *)
(***************************************************************************)

MaxHexLength == 7

HexDigits ==
  <<"0", "1", "2", "3", "4", "5", "6", "7", "8", "9",
    "a", "b", "c", "d", "e", "f">>
UpperHexDigits == <<"A", "B", "C", "D", "E", "F">>

SomeChars == {"#", "a", "F", "-"}
HexStrings ==
  UNION {[1..n -> SomeChars] : n \in 0..MaxHexLength} \cup
  {<<"#", "1", "a", "2", "b", "3", "c">>,
   <<"#", "f", "F", "0", "a", "A", "9">>,
   <<"1", "2", "3", "4", "5", "6">>,
   <<"#", "#", "1", "a", "2", "b", "3", "c">>,
   <<"F", "F", "G", "0", "0", "0">>,
   <<"+", "1", "+", "2", "+", "3">>,
   <<" ", "1", " ", "2", " ", "3">>}

Lower(c) ==
  IF \E i \in 1..6 : UpperHexDigits[i] = c
    THEN HexDigits[10 + CHOOSE i \in 1..6 : UpperHexDigits[i] = c]
    ELSE c

IsHexDigit(c) == \E i \in 1..16 : HexDigits[i] = Lower(c)
HexValue(c) == (CHOOSE i \in 1..16 : HexDigits[i] = Lower(c)) - 1

\* str.lstrip('#'): every leading '#' is removed.
RECURSIVE lstrip(_)
lstrip(s) == IF s # <<>> /\ s[1] = "#" THEN lstrip(Tail(s)) ELSE s

\* Python's int(s, 16) on a string of two characters: two hex digits, or one
\* hex digit with a sign or a blank before it, or with a blank after it;
\* anything else is a ValueError.
int16(s) ==
  IF IsHexDigit(s[1]) /\ IsHexDigit(s[2])
    THEN [raised |-> "none", value |-> 16 * HexValue(s[1]) + HexValue(s[2])]
  ELSE IF s[1] \in {"+", " "} /\ IsHexDigit(s[2])
    THEN [raised |-> "none", value |-> HexValue(s[2])]
  ELSE IF s[1] = "-" /\ IsHexDigit(s[2])
    THEN [raised |-> "none", value |-> 0 - HexValue(s[2])]
  ELSE IF IsHexDigit(s[1]) /\ s[2] = " "
    THEN [raised |-> "none", value |-> HexValue(s[1])]
  ELSE [raised |-> "ValueError", value |-> 0]

\* utils/image.py:97-124
hex_to_rgb(hex_color_string) ==
  LET hex_code == lstrip(hex_color_string)
  IN IF Len(hex_code) # 6
       THEN [raised |-> "ValueError", value |-> <<>>]
       ELSE LET red == int16(SubSeq(hex_code, 1, 2))
                green == int16(SubSeq(hex_code, 3, 4))
                blue == int16(SubSeq(hex_code, 5, 6))
            IN IF \E part \in {red, green, blue} : part.raised # "none"
                 THEN [raised |-> "ValueError", value |-> <<>>]
                 ELSE [raised |-> "none",
                       value |-> <<red.value, green.value, blue.value>>]

(***************************************************************************)
(* video/generation.py get_gemini_generated_video_prompt.                  *)
(***************************************************************************)

OptionalNames == {None, Some(""), Some("name")}

\* Python's truth value of an optional string: None and '' are false.
TruthyString(x) == x # None /\ x[1] # ""

\* The rest of the function once it has a client: generate_content is called
\* and its text returned, or its error goes on to the caller.
GenerateContent(constructed, api_ok) ==
  [raised |-> IF api_ok THEN "none" ELSE "APIError",
   constructed |-> constructed, model_calls |-> 1,
   value |-> IF api_ok THEN "response.text" ELSE ""]

\* The client built first and the arguments checked afterwards.
GeminiPromptClientFirst(client, project_id, location, api_ok) ==
  IF client = None
    THEN IF ~TruthyString(project_id) \/ ~TruthyString(location)
           THEN [raised |-> "ValueError", constructed |-> 1,
                 model_calls |-> 0, value |-> ""]
           ELSE GenerateContent(1, api_ok)
    ELSE GenerateContent(0, api_ok)

\* generation.py:91-138
get_gemini_generated_video_prompt(client, project_id, location, api_ok) ==
  IF client = None
    THEN IF ~TruthyString(project_id) \/ ~TruthyString(location)
           THEN [raised |-> "ValueError", constructed |-> 0,
                 model_calls |-> 0, value |-> ""]
           ELSE GenerateContent(1, api_ok)
    ELSE GenerateContent(0, api_ok)

(***************************************************************************)
(* editing.py fade_in, slide_in and cross_fade: where each clip after the  *)
(* first starts in the composite, and how long the composite is. A         *)
(* CompositeVideoClip lasts until the last end of its clips.               *)
(***************************************************************************)

\* editing.py:319-324 and 346-351: the passes of the loop over the clips
\* from clip k on; idx is the running start, last_end the last end so far.
RECURSIVE RunningLoop(_, _, _, _, _, _)
RunningLoop(video_clips, padding, k, idx, starts, last_end) ==
  IF k > Len(video_clips)
    THEN [raised |-> "none", composed |-> 1, starts |-> starts,
          duration |-> last_end]
    ELSE LET end == idx + video_clips[k]
         IN RunningLoop(video_clips, padding, k + 1,
                        idx + video_clips[k] - padding,
                        Append(starts, idx),
                        IF end > last_end THEN end ELSE last_end)

\* editing.py:304-328
fade_in(video_clips, padding) ==
  RunningLoop(video_clips, padding, 2, video_clips[1] - padding, <<>>,
              video_clips[1])

\* editing.py:331-355, for the sides SlideIn knows.
slide_in(video_clips, padding, side) ==
  RunningLoop(video_clips, padding, 2, video_clips[1] - padding, <<>>,
              video_clips[1])

\* The clips one after the other, with no overlap.
CrossFadeBackToBack(video_clips, padding) ==
  SwipeLoop(video_clips, 0, 2, video_clips[1], <<>>)

\* editing.py:358-385: the loop of swipe with other effects.
cross_fade(video_clips, padding) ==
  SwipeLoop(video_clips, padding, 2, video_clips[1], <<>>)

VARIABLES
  call    \* the call: function, arguments, and its outcome once it has ended

NoResult == [raised |-> "none"]

TrimCalls ==
  [fn : {"trim_clips"}, ended : {FALSE}, result : {NoResult},
   video_clips : ClipLists, padding : Paddings,
   output_length : OutputLengths, trim_location : TrimLocations,
   trim_enabled : BOOLEAN]

ResolutionCalls ==
  [fn : {"set_target_resolution"}, ended : {FALSE}, result : {NoResult},
   clip_dimension : PixelSizes \X PixelSizes,
   resized_image_width : PixelSizes, resized_image_height : PixelSizes]

AudioCalls ==
  {c \in [fn : {"calculate_audio_duration"}, ended : {FALSE},
          result : {NoResult}, i : 1..MaxAudio, audio_inputs : AudioLists,
          video_duration : VideoDurations] : c.i <= Len(c.audio_inputs)}

SideCalls ==
  [fn : {"get_opposite_side"}, ended : {FALSE}, result : {NoResult},
   side : SideInputs]

SwipeCalls ==
  [fn : {"swipe"}, ended : {FALSE}, result : {NoResult},
   video_clips : ClipLists, padding : Paddings, side : SideInputs]

TextInputCalls ==
  [fn : {"TextInput"}, ended : {FALSE}, result : {NoResult},
   values : TextInputValues]

ImageOverlayCalls ==
  [fn : {"add_image_clips_to_video", "overlay_image_on_video"},
   ended : {FALSE}, result : {NoResult}, duration : ImageDurations,
   height : ImageHeights, video_duration : HostDurations]

HexCalls ==
  [fn : {"hex_to_rgb"}, ended : {FALSE}, result : {NoResult},
   hex_color_string : HexStrings]

GeminiCalls ==
  [fn : {"get_gemini_generated_video_prompt"}, ended : {FALSE},
   result : {NoResult}, client : {None, Some("client")},
   project_id : OptionalNames, location : OptionalNames, api_ok : BOOLEAN]

FadeInCalls ==
  [fn : {"fade_in"}, ended : {FALSE}, result : {NoResult},
   video_clips : ClipLists, padding : Paddings]

SlideInCalls ==
  [fn : {"slide_in"}, ended : {FALSE}, result : {NoResult},
   video_clips : ClipLists, padding : Paddings, side : Sides]

CrossFadeCalls ==
  [fn : {"cross_fade"}, ended : {FALSE}, result : {NoResult},
   video_clips : ClipLists, padding : Paddings]

CallsInit ==
  call \in TrimCalls \cup ResolutionCalls \cup AudioCalls \cup SideCalls
             \cup SwipeCalls
             \cup TextInputCalls
             \cup ImageOverlayCalls
             \cup HexCalls
             \cup GeminiCalls
             \cup FadeInCalls
             \cup SlideInCalls
             \cup CrossFadeCalls

Return(result) == call' = [call EXCEPT !.ended = TRUE, !.result = result]

TrimClips ==
  /\ call.fn = "trim_clips" /\ ~call.ended
  /\ Return(trim_clips(call.video_clips, call.padding, call.output_length,
                       call.trim_location, call.trim_enabled))

SetTargetResolution ==
  /\ call.fn = "set_target_resolution" /\ ~call.ended
  /\ Return([raised |-> "none",
             value |-> set_target_resolution(call.clip_dimension,
                         call.resized_image_width,
                         call.resized_image_height)])

CalculateAudioDuration ==
  /\ call.fn = "calculate_audio_duration" /\ ~call.ended
  /\ Return([raised |-> "none",
             value |-> calculate_audio_duration(call.i, call.audio_inputs,
                                                call.video_duration)])

\* The opposite of the side, and the opposite of that.
GetOppositeSide ==
  /\ call.fn = "get_opposite_side" /\ ~call.ended
  /\ LET once == get_opposite_side(call.side) IN
       Return([raised |-> once.raised, value |-> once.value,
               back |-> IF once.raised = "none"
                          THEN get_opposite_side(once.value).value ELSE ""])

Swipe ==
  /\ call.fn = "swipe" /\ ~call.ended
  /\ Return(swipe(call.video_clips, call.padding, call.side))

ConstructTextInput ==
  /\ call.fn = "TextInput" /\ ~call.ended
  /\ Return(TextInput(call.values))

AddImageClipsToVideo ==
  /\ call.fn = "add_image_clips_to_video" /\ ~call.ended
  /\ Return(add_image_clips_to_video(call.duration, call.height,
                                     call.video_duration))

OverlayImageOnVideo ==
  /\ call.fn = "overlay_image_on_video" /\ ~call.ended
  /\ Return(overlay_image_on_video(call.duration, call.height,
                                   call.video_duration))

HexToRgb ==
  /\ call.fn = "hex_to_rgb" /\ ~call.ended
  /\ Return(hex_to_rgb(call.hex_color_string))

GetGeminiGeneratedVideoPrompt ==
  /\ call.fn = "get_gemini_generated_video_prompt" /\ ~call.ended
  /\ Return(get_gemini_generated_video_prompt(call.client, call.project_id,
                                              call.location, call.api_ok))

FadeIn ==
  /\ call.fn = "fade_in" /\ ~call.ended
  /\ Return(fade_in(call.video_clips, call.padding))

SlideIn ==
  /\ call.fn = "slide_in" /\ ~call.ended
  /\ Return(slide_in(call.video_clips, call.padding, call.side))

CrossFade ==
  /\ call.fn = "cross_fade" /\ ~call.ended
  /\ Return(cross_fade(call.video_clips, call.padding))

CallsIdle == call = [fn |-> "none", ended |-> FALSE, result |-> NoResult]

(***************************************************************************)
(* concatenate_video_clips (video/editing.py): the input files, the steps  *)
(* of the try block and the removal of the input files in its finally      *)
(* block.                                                                  *)
(***************************************************************************)

NumFiles == 3
MaxVideos == 3

Files == 1..NumFiles
VideoLists == UNION {[1..n -> Files] : n \in 0..MaxVideos}
SupportedTransitions == {"CROSS_FADE", "FADE_IN", "SWIPE", "SLIDE_IN"}
TransitionNames == SupportedTransitions \cup {"WIPE"}

VARIABLES
  videos,           \* the paths of the clips to concatenate
  disk,             \* the files that exist
  transition_name,  \* transition.name
  cpc,              \* where the call stands
  opened,           \* number of times a clip file was opened
  trimmed,          \* has trim_clips run
  encoded,          \* has write_videofile run
  cexc,             \* the exception that left the try block
  removing          \* index of the next file the finally block removes

cvars == <<videos, disk, transition_name, cpc, opened, trimmed, encoded,
           cexc, removing>>

ConcatStart ==
  /\ cpc = "start"
  /\ opened = 0
  /\ trimmed = FALSE
  /\ encoded = FALSE
  /\ cexc = "none"
  /\ removing = 1

ConcatInit ==
  /\ videos \in VideoLists
  /\ disk \in SUBSET Files
  /\ transition_name \in TransitionNames
  /\ ConcatStart

\* The try block is left with exception e (or "none"): on to the finally
\* block.
Leave(e) ==
  /\ cexc' = e
  /\ cpc' = "remove"

\* editing.py:473-474
ConcatCheckVideos ==
  /\ cpc = "start"
  /\ IF videos = <<>> THEN Leave("ValueError")
     ELSE cpc' = "resolution" /\ cexc' = cexc
  /\ UNCHANGED <<videos, disk, transition_name, opened, trimmed, encoded,
                 removing>>

\* editing.py:477-479: set_target_resolution opens the first file.
ConcatResolution ==
  /\ cpc = "resolution"
  /\ IF videos[1] \in disk
       THEN /\ opened' = opened + 1
            /\ cpc' = "load"
            /\ cexc' = cexc
       ELSE /\ opened' = opened
            /\ Leave("OSError")
  /\ UNCHANGED <<videos, disk, transition_name, trimmed, encoded, removing>>

\* editing.py:480-483: the loop that opens every file; the first missing file
\* ends it.
ConcatLoad ==
  /\ cpc = "load"
  /\ LET missing == {k \in 1..Len(videos) : videos[k] \notin disk}
         first == CHOOSE k \in missing : \A m \in missing : k <= m
     IN IF missing = {}
          THEN /\ opened' = opened + Len(videos)
               /\ cpc' = "trim"
               /\ cexc' = cexc
          ELSE /\ opened' = opened + (first - 1)
               /\ Leave("OSError")
  /\ UNCHANGED <<videos, disk, transition_name, trimmed, encoded, removing>>

\* editing.py:484-486: trim_clips returns or raises (see trim_clips).
ConcatTrim(raises) ==
  /\ cpc = "trim"
  /\ trimmed' = TRUE
  /\ IF raises THEN Leave("ZeroDivisionError")
     ELSE cpc' = "transition" /\ cexc' = cexc
  /\ UNCHANGED <<videos, disk, transition_name, opened, encoded, removing>>

\* editing.py:488-500: the transition is chosen by name and applied; any
\* other name is a ValueError.
ConcatTransition(raises) ==
  /\ cpc = "transition"
  /\ IF transition_name \notin SupportedTransitions THEN Leave("ValueError")
     ELSE IF raises THEN Leave("ValueError")
     ELSE cpc' = "encode" /\ cexc' = cexc
  /\ UNCHANGED <<videos, disk, transition_name, opened, trimmed, encoded,
                 removing>>

\* editing.py:502-503
ConcatEncode(raises) ==
  /\ cpc = "encode"
  /\ encoded' = TRUE
  /\ Leave(IF raises THEN "OSError" ELSE "none")
  /\ UNCHANGED <<videos, disk, transition_name, opened, trimmed, removing>>

\* The end of the call: the exception of the try block goes on to the
\* caller, or target_path is returned.
ConcatEnd == IF cexc = "none" THEN "returned" ELSE "raised"

\* editing.py:506-511: os.remove of the next file. The try statement is
\* around the whole loop: the FileNotFoundError of a missing file ends the
\* loop and is passed over.
RemoveNext(k) ==
  IF videos[k] \in disk
    THEN /\ disk' = disk \ {videos[k]}
         /\ removing' = k + 1
         /\ cpc' = cpc
    ELSE /\ disk' = disk
         /\ removing' = removing
         /\ cpc' = ConcatEnd

\* editing.py:504-514: one pass of the loop of the finally block, or its end.
ConcatRemove ==
  /\ cpc = "remove"
  /\ IF removing > Len(videos)
       THEN /\ cpc' = ConcatEnd
            /\ UNCHANGED <<disk, removing>>
       ELSE RemoveNext(removing)
  /\ UNCHANGED <<videos, transition_name, opened, trimmed, encoded, cexc>>

ConcatIdle ==
  /\ videos = <<>>
  /\ disk = {}
  /\ transition_name = "CROSS_FADE"
  /\ ConcatStart

(***************************************************************************)
(* process_videos_with_overlays_and_text (video/editing.py): a thread pool *)
(* maps process_video over the videos.                                     *)
(***************************************************************************)

NumOverlayVideos == 3

OverlayVideos == 1..NumOverlayVideos

VARIABLES
  ofuture,   \* state of the future of each video
  opc,       \* where the worker of each video stands
  oexc,      \* the exception that ended process_video for each video
  ompc       \* where the calling thread stands

ovars == <<ofuture, opc, oexc, ompc>>

OverlayInit ==
  /\ ofuture = [v \in OverlayVideos |-> "none"]
  /\ opc = [v \in OverlayVideos |-> "idle"]
  /\ oexc = [v \in OverlayVideos |-> "none"]
  /\ ompc = "start"

\* editing.py:243: executor.map submits process_video for every video.
OverlayMap ==
  /\ ompc = "start"
  /\ ofuture' = [v \in OverlayVideos |-> "pending"]
  /\ ompc' = "exit"
  /\ UNCHANGED <<opc, oexc>>

OverlayStart(v) ==
  /\ ofuture[v] = "pending"
  /\ ofuture' = [ofuture EXCEPT ![v] = "running"]
  /\ opc' = [opc EXCEPT ![v] = "download"]
  /\ UNCHANGED <<oexc, ompc>>

\* The steps of process_video in their order.
AfterStep(step) ==
  CASE step = "download" -> "image"
    [] step = "image" -> "text"
    [] step = "text" -> "done"

\* editing.py:213-240: a step of process_video: the download of the video,
\* overlay_image_on_video, add_text_clips_to_video. Each raises when a file
\* it needs is missing; the exception is stored in the future.
ProcessVideoStep(v, e) ==
  /\ ofuture[v] = "running"
  /\ opc[v] \in {"download", "image", "text"}
  /\ IF e = "none"
       THEN /\ opc' = [opc EXCEPT ![v] = AfterStep(opc[v])]
            /\ ofuture' = [ofuture EXCEPT ![v] =
                 IF AfterStep(opc[v]) = "done" THEN "finished" ELSE @]
            /\ oexc' = oexc
       ELSE /\ opc' = [opc EXCEPT ![v] = "done"]
            /\ ofuture' = [ofuture EXCEPT ![v] = "raised"]
            /\ oexc' = [oexc EXCEPT ![v] = e]
  /\ UNCHANGED ompc

\* editing.py:242-243: leaving the with block waits for every worker
\* (shutdown(wait=True)). The iterator executor.map returned is dropped: no
\* result is asked for, so no stored exception is raised again, and the
\* function returns None.
OverlayExit ==
  /\ ompc = "exit"
  /\ \A v \in OverlayVideos : ofuture[v] \in {"finished", "raised"}
  /\ ompc' = "returned"
  /\ UNCHANGED <<ofuture, opc, oexc>>

OverlayIdle == OverlayInit

FetchIdle ==
  /\ fpc = "idle"
  /\ attempt = 0
  /\ requests = 0
  /\ sleeps = 0
  /\ elapsed = 0
  /\ ret = NoneValue
  /\ exc = "none"
  /\ lastOutcome = NoOutcome
  /\ httpErrors = 0
  /\ firstDone = 0
  /\ doneBody = NoneValue

BatchIdle ==
  /\ items = [i \in Items |-> [has_uri |-> TRUE]]
  /\ prompt_type = "CUSTOM"
  /\ BatchStart

vars == <<fvars, bvars, pvars, call, cvars, ovars>>

notBatch == <<fvars, pvars, call, cvars, ovars>>
notFetch == <<bvars, pvars, call, cvars, ovars>>
notPaths == <<fvars, bvars, call, cvars, ovars>>
notCalls == <<fvars, bvars, pvars, cvars, ovars>>
notConcat == <<fvars, bvars, pvars, call, ovars>>
notOverlay == <<fvars, bvars, pvars, call, cvars>>

Init ==
  BatchInit /\ FetchIdle /\ PathsIdle /\ CallsIdle /\ ConcatIdle /\ OverlayIdle

Next ==
  \/ MapSubmit /\ UNCHANGED notBatch
  \/ \E i \in Items : StartWorker(i) /\ UNCHANGED notBatch
  \/ \E i \in Items : CheckField(i) /\ UNCHANGED notBatch
  \/ \E i \in Items, found \in BOOLEAN :
       DownloadSource(i, found) /\ UNCHANGED notBatch
  \/ \E i \in Items, loaded \in BOOLEAN :
       ResolvePrompt(i, loaded) /\ UNCHANGED notBatch
  \/ \E i \in Items, r \in ImageToVideoResults :
       Generate(i, r) /\ UNCHANGED notBatch
  \/ \E i \in Items, found \in BOOLEAN :
       DownloadVideo(i, found) /\ UNCHANGED notBatch
  \/ Collect /\ UNCHANGED notBatch
  \/ Shutdown /\ UNCHANGED notBatch

Spec == Init /\ [][Next]_vars

FetchNext ==
  \/ \E o \in Outcomes : FetchRequest(o) /\ UNCHANGED notFetch
  \/ FetchSleep /\ UNCHANGED notFetch

InitFetch ==
  FetchInit /\ BatchIdle /\ PathsIdle /\ CallsIdle /\ ConcatIdle /\ OverlayIdle

SpecFetch == InitFetch /\ [][FetchNext]_vars

PathsNext ==
  \/ \E i \in Items : PathSource(i) /\ UNCHANGED notPaths
  \/ \E i \in Items : PathVideo(i) /\ UNCHANGED notPaths
  \/ \E i \in Items : PathReturn(i) /\ UNCHANGED notPaths

InitPaths ==
  PathsInit /\ FetchIdle /\ BatchIdle /\ CallsIdle /\ ConcatIdle /\ OverlayIdle

SpecPaths == InitPaths /\ [][PathsNext]_vars

CallsNext ==
  \/ TrimClips /\ UNCHANGED notCalls
  \/ SetTargetResolution /\ UNCHANGED notCalls
  \/ CalculateAudioDuration /\ UNCHANGED notCalls
  \/ GetOppositeSide /\ UNCHANGED notCalls
  \/ Swipe /\ UNCHANGED notCalls
  \/ ConstructTextInput /\ UNCHANGED notCalls
  \/ AddImageClipsToVideo /\ UNCHANGED notCalls
  \/ OverlayImageOnVideo /\ UNCHANGED notCalls
  \/ HexToRgb /\ UNCHANGED notCalls
  \/ GetGeminiGeneratedVideoPrompt /\ UNCHANGED notCalls
  \/ FadeIn /\ UNCHANGED notCalls
  \/ SlideIn /\ UNCHANGED notCalls
  \/ CrossFade /\ UNCHANGED notCalls

InitCalls ==
  CallsInit /\ FetchIdle /\ BatchIdle /\ PathsIdle /\ ConcatIdle /\ OverlayIdle

SpecCalls == InitCalls /\ [][CallsNext]_vars

ConcatNext ==
  \/ ConcatCheckVideos /\ UNCHANGED notConcat
  \/ ConcatResolution /\ UNCHANGED notConcat
  \/ ConcatLoad /\ UNCHANGED notConcat
  \/ \E raises \in BOOLEAN : ConcatTrim(raises) /\ UNCHANGED notConcat
  \/ \E raises \in BOOLEAN : ConcatTransition(raises) /\ UNCHANGED notConcat
  \/ \E raises \in BOOLEAN : ConcatEncode(raises) /\ UNCHANGED notConcat
  \/ ConcatRemove /\ UNCHANGED notConcat

InitConcat ==
  ConcatInit /\ FetchIdle /\ BatchIdle /\ PathsIdle /\ CallsIdle /\ OverlayIdle

SpecConcat == InitConcat /\ [][ConcatNext]_vars

OverlayErrors == {"none", "FileNotFoundError"}

OverlayNext ==
  \/ OverlayMap /\ UNCHANGED notOverlay
  \/ \E v \in OverlayVideos : OverlayStart(v) /\ UNCHANGED notOverlay
  \/ \E v \in OverlayVideos, e \in OverlayErrors :
       ProcessVideoStep(v, e) /\ UNCHANGED notOverlay
  \/ OverlayExit /\ UNCHANGED notOverlay

InitOverlay ==
  OverlayInit /\ FetchIdle /\ BatchIdle /\ PathsIdle /\ CallsIdle /\ ConcatIdle

SpecOverlay == InitOverlay /\ [][OverlayNext]_vars

(***************************************************************************)
(* The operation poller (fetch_operation), checked under SpecFetch.        *)
(***************************************************************************)
FetchEnded == fpc \in {"returned", "raised"}

TransportFailure(o) ==
  \/ o.net \in {"ConnectionError", "Timeout"}
  \/ o.net = "ok" /\ raise_for_status(o.code)

\* C1: if the k-th status request is the first one answered with done=true,
\* the call has returned that answer after exactly k requests and k-1 sleeps
\* of attempt_interval seconds, and nothing is requested or slept afterwards.
C1_FirstDoneIsReturned ==
  firstDone # 0 =>
    /\ fpc = "returned"
    /\ firstDone <= max_attempts
    /\ requests = firstDone
    /\ sleeps = firstDone - 1
    /\ elapsed = (firstDone - 1) * attempt_interval
    /\ ret = doneBody
    /\ ret.done = "true"

C1_Witness ==
  /\ fpc = "returned"
  /\ firstDone = max_attempts
  /\ sleeps = max_attempts - 1
  /\ ret = [done |-> "true", payload |-> 2]

\* C2: when the call has ended and no status request was answered with
\* done=true, it has returned None after exactly max_attempts requests and
\* max_attempts sleeps, and has raised nothing.
C2_ExhaustedBudgetReturnsNone ==
  (FetchEnded /\ firstDone = 0) =>
    /\ fpc = "returned"
    /\ exc = "none"
    /\ ret = NoneValue
    /\ requests = max_attempts
    /\ sleeps = max_attempts

\* C3: a status request that fails at the transport level (connection
\* failure, timeout, non-2xx status) never makes fetch_operation raise: the
\* poller goes on to its sleep.
C3_TransportErrorNeverEscapes ==
  TransportFailure(lastOutcome) => (fpc # "raised" /\ exc = "none")

\* C4: every value fetch_operation returns other than None has done=true; an
\* answer whose done flag is false or absent raises nothing and sends the
\* poller to its sleep.
C4_ReturnedResponseIsDone ==
  /\ (fpc = "returned" /\ ret # NoneValue) => ret.done = "true"
  /\ (/\ lastOutcome.net = "ok"
      /\ ~raise_for_status(lastOutcome.code)
      /\ lastOutcome.body.done \in {"false", "absent"}
      /\ requests = attempt + 1)
       => (fpc = "sleep" /\ exc = "none")

C4_Witness ==
  /\ fpc = "returned"
  /\ ret # NoneValue
  /\ sleeps > 0
  /\ httpErrors = 0

(***************************************************************************)
(* The batch (generate_videos_concurrently), checked under Spec.           *)
(***************************************************************************)
BatchEnded == mpc \in {"returned", "raised"}

\* What a worker hands to the aggregation: its list, or nothing if it raised.
Contribution(i) ==
  IF future[i] = "finished" THEN output_video_files[i] ELSE <<>>

RECURSIVE InInputOrder(_)
InInputOrder(n) ==
  IF n = 0 THEN <<>> ELSE InInputOrder(n - 1) \o Contribution(n)

RECURSIVE TotalRecords(_)
TotalRecords(n) ==
  IF n = 0 THEN 0 ELSE TotalRecords(n - 1) + Len(Contribution(n))

Occurrences(rec) ==
  Cardinality({n \in 1..Len(all_generated_videos) :
                 all_generated_videos[n] = rec})

\* C5: when the only failures in the batch are not-found errors raised inside
\* workers, generate_videos_concurrently returns (it does not raise) and the
\* list holds exactly the outputs of the items that did not fail.
C5_NotFoundDoesNotAbortBatch ==
  (/\ BatchEnded
   /\ \E i \in Items : wexc[i] = "NotFound"
   /\ \A i \in Items : wexc[i] \in {"none", "NotFound"})
    => (/\ mpc = "returned"
        /\ mexc = "none"
        /\ all_generated_videos = InInputOrder(NumItems))

\* C6: an item whose polling ran out of attempts causes no download and no
\* relocation, its worker ends with an empty list and not with an exception,
\* and a batch whose only failures are such timeouts returns.
C6_TimeoutContributesNothing ==
  /\ \A i \in Items : i2v[i].timed_out =>
       /\ io[i].video_downloads = 0
       /\ io[i].moves = 0
       /\ future[i] = "finished"
       /\ output_video_files[i] = <<>>
  /\ (/\ BatchEnded
      /\ \A i \in Items : wexc[i] # "none" => i2v[i].timed_out)
       => mpc = "returned"

\* C7: the worker is never invoked twice for an item, and when the call
\* returns it was invoked once for every item and the list holds every
\* record of every per-item list exactly once and nothing else.
C7_ReturnsExactlyAllRecords ==
  /\ \A i \in Items : calls[i] <= 1
  /\ mpc = "returned" =>
       /\ \A i \in Items : calls[i] = 1
       /\ Len(all_generated_videos) = TotalRecords(NumItems)
       /\ \A i \in Items : \A k \in 1..Len(output_video_files[i]) :
            Occurrences(output_video_files[i][k]) = 1

C7_Witness ==
  /\ mpc = "returned"
  /\ overtaken
  /\ \E i \in Items : output_video_files[i] = <<>>
  /\ \E i \in Items : Len(output_video_files[i]) = 2

\* C8: when the call returns, the list is the concatenation of the per-item
\* lists in the order of the input items, whatever order the workers ended
\* in.
C8_ResultsInInputOrder ==
  mpc = "returned" => all_generated_videos = InInputOrder(NumItems)

C8_Witness ==
  /\ mpc = "returned"
  /\ overtaken
  /\ \A i \in Items : output_video_files[i] # <<>>
  /\ Len(all_generated_videos) > NumItems

\* C9: for an item without 'recolored_image_uri' nothing is downloaded, no
\* prompt is resolved, nothing is submitted or polled; its worker ends with
\* an empty list and never with an exception, and a batch in which no worker
\* raised returns with every item processed once.
C9_MissingUriItemIsSkipped ==
  /\ \A i \in Items : ~items[i].has_uri =>
       /\ io[i] = NoIo
       /\ i2v[i] = NoCall
       /\ final_prompt[i] = "unset"
       /\ future[i] # "raised"
       /\ output_video_files[i] = <<>>
  /\ (BatchEnded /\ \A j \in Items : wexc[j] = "none") =>
       /\ mpc = "returned"
       /\ \A j \in Items : calls[j] = 1 /\ future[j] = "finished"

C9_Witness ==
  /\ mpc = "returned"
  /\ \E i \in Items : ~items[i].has_uri /\ future[i] = "finished"
  /\ \E j \in Items : items[j].has_uri /\ output_video_files[j] # <<>>

C11_WorkersUseDistinctLocalPaths ==
  \A i, j \in Items : i # j => local_paths[i] \cap local_paths[j] = {}

(***************************************************************************)
(* Configuration errors of the batch, checked under Spec.                  *)
(***************************************************************************)

\* C17: with a prompt type that is neither CUSTOM nor GEMINI the worker of an
\* item fails before any storage or network call: no source image is
\* downloaded and no generation request is submitted with an empty prompt.
C17_InvalidPromptTypeFailsBeforeIo ==
  prompt_type \notin {"CUSTOM", "GEMINI"} =>
    \A i \in Items : /\ io[i] = NoIo
                     /\ i2v[i].submissions = 0
                     /\ final_prompt[i] # ""

(***************************************************************************)
(* The computing functions of the editing modules, checked under           *)
(* SpecCalls.                                                              *)
(***************************************************************************)

Ended(fn) == call.fn = fn /\ call.ended

\* The clips trim_clips returned last as long as the clips it was given.
DurationsKept ==
  /\ Len(call.result.clips) = Len(call.video_clips)
  /\ \A k \in 1..Len(call.video_clips) :
       call.result.clips[k].num =
         call.video_clips[k] * call.result.clips[k].den

\* C12: when the sum of the clip durations minus padding x (n-1) is at most
\* output_length (equality included), trim_clips raises nothing and every
\* returned clip has the duration of the clip it was given.
C12_NoTrimUpToOutputLength ==
  ( /\ Ended("trim_clips")
    /\ call.trim_location \in {"start", "end"}
    /\ total_length(call.video_clips, call.padding) <= call.output_length )
  => /\ call.result.raised = "none"
     /\ DurationsKept

\* C13: when the padding-adjusted total exceeds output_length, trim_clips
\* completes, returns as many clips as it was given, and the first and the
\* last of them are the given clips with their durations.
C13_OnlyInteriorClipsChange ==
  ( /\ Ended("trim_clips")
    /\ call.trim_location \in {"start", "end"}
    /\ total_length(call.video_clips, call.padding) > call.output_length )
  => /\ call.result.raised = "none"
     /\ Len(call.result.clips) = Len(call.video_clips)
     /\ call.result.clips[1] = Whole(call.video_clips[1])
     /\ call.result.clips[Len(call.video_clips)] =
          Whole(call.video_clips[Len(call.video_clips)])

Smaller(a, b) == IF a < b THEN a ELSE b
Larger(a, b) == IF a < b THEN b ELSE a

\* C18: set_target_resolution returns (min, max) of the desired pair for a
\* portrait clip, (max, min) for a landscape clip and (min, min) for a square
\* clip; a 1080x1920 clip with desired (1280, 720) yields (720, 1280).
C18_ResolutionKeepsOrientation ==
  Ended("set_target_resolution") =>
    LET w == call.clip_dimension[1]
        h == call.clip_dimension[2]
        lo == Smaller(call.resized_image_width, call.resized_image_height)
        hi == Larger(call.resized_image_width, call.resized_image_height)
    IN /\ call.result.raised = "none"
       /\ w < h => call.result.value = <<lo, hi>>
       /\ w > h => call.result.value = <<hi, lo>>
       /\ w = h => call.result.value = <<lo, lo>>

C18_Witness ==
  /\ Ended("set_target_resolution")
  /\ call.clip_dimension = <<1080, 1920>>
  /\ call.resized_image_width = 1280
  /\ call.resized_image_height = 720
  /\ call.result.value = <<720, 1280>>

\* C19: calculate_audio_duration gives overlay i its explicit duration when
\* one is given, otherwise the start of overlay i+1 minus its own start,
\* otherwise (last overlay) the video duration minus its own start.
C19_AudioDurationResolution ==
  Ended("calculate_audio_duration") =>
    LET own == call.audio_inputs[call.i]
    IN call.result.value =
         IF own.duration # None THEN own.duration[1]
         ELSE IF call.i < Len(call.audio_inputs)
           THEN call.audio_inputs[call.i + 1].start_time - own.start_time
         ELSE call.video_duration - own.start_time

OppositeOf ==
  [side \in Sides |->
     CASE side = "left" -> "right" [] side = "right" -> "left"
       [] side = "top" -> "bottom" [] side = "bottom" -> "top"]

\* C20: get_opposite_side maps left<->right and top<->bottom, applying it
\* twice gives the side back, any other value raises ValueError, and swipe
\* given such a value raises before it composes a clip.
C20_OppositeSideIsInvolution ==
  /\ Ended("get_opposite_side") =>
       IF call.side \in Sides
         THEN /\ call.result.raised = "none"
              /\ call.result.value = OppositeOf[call.side]
              /\ call.result.back = call.side
         ELSE call.result.raised = "ValueError"
  /\ (Ended("swipe") /\ call.side \notin Sides) =>
       /\ call.result.raised = "ValueError"
       /\ call.result.composed = 0

C20_Witness ==
  /\ Ended("get_opposite_side")
  /\ call.side = "top"
  /\ call.result.value = "bottom"
  /\ call.result.back = "top"

(***************************************************************************)
(* concatenate_video_clips, checked under SpecConcat.                      *)
(***************************************************************************)

ConcatEnded == cpc \in {"returned", "raised"}

\* C14: on every exit of concatenate_video_clips (return or error) the input
\* files have been removed: none of them is left on disk.
C14_NoInputFileLeftOnExit ==
  ConcatEnded => \A k \in 1..Len(videos) : videos[k] \notin disk

\* C16: with an unsupported transition name the call fails before any clip
\* file is opened, trimmed or encoded.
C16_UnsupportedTransitionFailsFast ==
  transition_name \notin SupportedTransitions =>
    /\ opened = 0
    /\ ~trimmed
    /\ ~encoded

(***************************************************************************)
(* process_videos_with_overlays_and_text, checked under SpecOverlay.       *)
(***************************************************************************)

\* C15: process_videos_with_overlays_and_text does not return normally when
\* the overlay processing of one of its videos raised.
C15_OverlayFailurePropagates ==
  ompc = "returned" => \A v \in OverlayVideos : oexc[v] = "none"

\* C21: every TextInput that is constructed has its font_size set when its
\* method is 'label' (given or left at its default) and was given its size
\* when its method is 'caption'.
C21_LayoutModeInvariant ==
  (Ended("TextInput") /\ call.result.raised = "none") =>
    /\ call.result.method = "label" => call.result.font_size # None
    /\ call.result.method = "caption" => call.result.size_given

\* C22: in add_image_clips_to_video and in overlay_image_on_video an image
\* overlay without a duration is shown for the duration of the host clip,
\* one without a height is not rescaled, and neither raises an error.
C22_OmittedDurationAndHeight ==
  ( /\ Ended("add_image_clips_to_video") \/ Ended("overlay_image_on_video")
    /\ call.duration = None \/ call.height = None )
  => /\ call.result.raised = "none"
     /\ call.duration = None =>
          call.result.duration = Some(call.video_duration)
     /\ call.height = None => ~call.result.rescaled

\* Six hexadecimal digits, with or without one '#' before them.
SixHexDigits(s) ==
  LET digits == IF s # <<>> /\ s[1] = "#" THEN Tail(s) ELSE s
  IN Len(digits) = 6 /\ \A i \in 1..6 : IsHexDigit(digits[i])

ByteAt(s, i) ==
  LET digits == IF s[1] = "#" THEN Tail(s) ELSE s
  IN 16 * HexValue(digits[i]) + HexValue(digits[i + 1])

\* C23: hex_to_rgb maps six hexadecimal digits, with an optional '#' before
\* them and in either case, to the three byte values, and raises ValueError
\* for every other string.
C23_HexToRgb ==
  Ended("hex_to_rgb") =>
    LET s == call.hex_color_string
    IN IF SixHexDigits(s)
         THEN /\ call.result.raised = "none"
              /\ call.result.value = <<ByteAt(s, 1), ByteAt(s, 3), ByteAt(s, 5)>>
         ELSE call.result.raised = "ValueError"

\* C24: get_gemini_generated_video_prompt called without a client and
\* without both a project identifier and a region raises ValueError before a
\* client is constructed and before the model is called.
C24_MissingClientConfigurationFailsFirst ==
  ( /\ Ended("get_gemini_generated_video_prompt")
    /\ call.client = None
    /\ ~(TruthyString(call.project_id) /\ TruthyString(call.location)) )
  => /\ call.result.raised = "ValueError"
     /\ call.result.constructed = 0
     /\ call.result.model_calls = 0

C24_Witness ==
  /\ Ended("get_gemini_generated_video_prompt")
  /\ call.client = None
  /\ call.project_id = Some("name")
  /\ call.location = None
  /\ call.result.raised = "ValueError"
  /\ call.result.constructed = 0

\* C25: trim_clips raises ValueError whenever trim_location is neither
\* 'start' nor 'end' and whenever output_length is not positive.
C25_TrimClipsRejectsBadArguments ==
  ( /\ Ended("trim_clips")
    /\ \/ call.trim_location \notin {"start", "end"}
       \/ call.output_length <= 0 )
  => call.result.raised = "ValueError"

\* The length to trim, in seconds times the number of interior clips.
Excess == total_length(call.video_clips, call.padding) - call.output_length
Interior == 2..(Len(call.video_clips) - 1)

\* Every interior clip is shortened by Excess / (n - 2), at the side the
\* trim location names, and the padding-adjusted total of the returned clips
\* is output_length.
EvenlyTrimmed ==
  LET n == Len(call.video_clips)
      clips == call.result.clips
      RECURSIVE Nums(_)
      Nums(k) == IF k = 0 THEN 0
                 ELSE Nums(k - 1) + clips[k].num * ((n - 2) \div clips[k].den)
  IN /\ call.result.raised = "none"
     /\ Len(clips) = n
     /\ \A k \in Interior :
          /\ clips[k].den = n - 2
          /\ clips[k].num = call.video_clips[k] * (n - 2) - Excess
          /\ IF call.trim_location = "start"
               THEN /\ clips[k].from = Excess
                    /\ clips[k].to = call.video_clips[k] * (n - 2)
               ELSE /\ clips[k].from = 0
                    /\ clips[k].to = call.video_clips[k] * (n - 2) - Excess
     /\ Nums(n) - call.padding * (n - 1) * (n - 2) =
          call.output_length * (n - 2)

Trimming ==
  /\ Ended("trim_clips")
  /\ call.trim_enabled
  /\ call.trim_location \in {"start", "end"}
  /\ Excess > 0

\* C26 as stated: whenever the padding-adjusted total exceeds output_length,
\* every interior clip is shortened by (total - output_length) / (n - 2) at
\* the side of trim_location and the new total is output_length.
C26_EvenTrimReachesOutputLength == Trimming => EvenlyTrimmed

\* C26 amended: the same, for lists of at least three clips whose interior
\* clips are all longer than the share to trim.
C26_EvenTrimOfLongEnoughClips ==
  ( /\ Trimming
    /\ Len(call.video_clips) >= 3
    /\ \A k \in Interior :
         Excess < call.video_clips[k] * (Len(call.video_clips) - 2) )
  => EvenlyTrimmed

C26_Witness ==
  /\ Trimming
  /\ call.video_clips = <<2, 3, 2, 1>>
  /\ call.padding = 1
  /\ call.output_length = 4
  /\ call.trim_location = "start"
  /\ call.result.raised = "none"
  /\ call.result.clips[2].num = 5 /\ call.result.clips[2].den = 2
  /\ call.result.clips[3].num = 3

\* C30: for positive clip durations and a positive output_length every clip
\* trim_clips returns has a positive duration that is at most the duration
\* of the clip it was given, for both trim locations.
C30_TrimmedDurationsStayInRange ==
  ( /\ Ended("trim_clips")
    /\ call.trim_location \in {"start", "end"}
    /\ call.output_length > 0
    /\ call.result.raised = "none" )
  => \A k \in 1..Len(call.result.clips) :
       /\ call.result.clips[k].num > 0
       /\ call.result.clips[k].num <=
            call.video_clips[k] * call.result.clips[k].den

Transitions == {"fade_in", "slide_in", "cross_fade", "swipe"}

Composed ==
  /\ call.fn \in Transitions
  /\ call.ended
  /\ call.result.raised = "none"

\* Clip i + 1 starts at the sum of the durations of the clips before it
\* minus i times the padding, and the composite lasts the naive duration
\* total_length computes.
StartsAndDurationAsComputed ==
  /\ Len(call.result.starts) = Len(call.video_clips) - 1
  /\ \A i \in 1..Len(call.result.starts) :
       call.result.starts[i] = SumTo(call.video_clips, i) - i * call.padding
  /\ call.result.duration = total_length(call.video_clips, call.padding)

\* C27 as stated: for each of the four transitions, and every list of clips
\* and padding, clip i starts at (sum of the durations of clips 0..i-1) -
\* i x padding and the composite lasts sum of durations - padding x (n-1).
C27_TransitionsShareStartTimes == Composed => StartsAndDurationAsComputed

\* C27 amended: the same, when the padding is no longer than any clip after
\* the first.
C27_StartTimesWhenPaddingFitsClips ==
  ( /\ Composed
    /\ \A k \in 2..Len(call.video_clips) :
         call.padding <= call.video_clips[k] )
  => StartsAndDurationAsComputed

C27_Witness ==
  /\ Composed
  /\ call.fn = "cross_fade"
  /\ call.video_clips = <<2, 3, 1>>
  /\ call.padding = 1
  /\ call.result.starts = <<1, 3>>
  /\ call.result.duration = 4

\* The loop of the finally block came upon a file that was not there.
CleanupMetMissingFile == ConcatEnded /\ removing <= Len(videos)

\* C28: when an input file is already missing as the cleanup of
\* concatenate_video_clips runs, the FileNotFoundError is passed over and
\* every other input file that exists is still removed: at the end of the
\* call no input file is on disk.
C28_CleanupGoesOnPastMissingFile ==
  CleanupMetMissingFile => \A k \in 1..Len(videos) : videos[k] \notin disk

\* C29: when generate_videos_concurrently has returned or raised, no worker
\* of its pool is pending or running: every task that was started has
\* finished, so no worker can issue a request, download or relocation.
C29_NoWorkerOutlivesTheCall ==
  BatchEnded =>
    \A i \in Items : /\ future[i] \in {"finished", "raised", "cancelled"}
                     /\ wpc[i] \in {"idle", "done"}
                     /\ future[i] = "cancelled" => wpc[i] = "idle"

\* The call raised the exception of one worker, and a later worker, whose
\* result was never collected, has run to its end.
C29_Witness ==
  /\ mpc = "raised"
  /\ \E i, j \in Items :
       /\ i < j
       /\ future[i] = "raised"
       /\ future[j] = "finished" /\ wpc[j] = "done"
       /\ \A k \in 1..Len(yielded) : yielded[k] # j

====
